---------------------------- MODULE Spec2Model ----------------------------
(***************************************************************************)
(* A model of src/src/main.ts: the navcat / recast-navigation benchmark    *)
(* harness.                                                                *)
(*                                                                         *)
(*   BenchSpec   one call of benchmark(name, fn, warmupRuns, runs) on an   *)
(*               operation whose elapsed times are an input                *)
(*   GatherSpec  gatherTrianglesFromScene applied to a bounded scene graph *)
(*   Spec        run(): the whole orchestration, from the status overlay   *)
(*               to the summary or the top-level catch handler             *)
(*                                                                         *)
(* Numbers.  Elapsed times are small naturals (clock ticks).  mean and     *)
(* variance are exact fractions <<num, den>> in lowest terms; stdDev is    *)
(* the exact root when the variance is the square of a fraction, and       *)
(* otherwise is kept as "the root of" the variance.  The generation        *)
(* options are fixed-point numbers in hundredths (0.15 is 15).             *)
(***************************************************************************)
EXTENDS Integers, Sequences, FiniteSets, TLC

VARIABLES
    pc,            \* control location of run() / benchmark()
    name,          \* benchmark: the name parameter
    warmupRuns,    \* benchmark: the warmupRuns parameter
    runs,          \* benchmark: the runs parameter
    workload,      \* the elapsed time fn takes on each measured invocation
    i,             \* benchmark: loop counter
    times,         \* benchmark: the recorded series
    calls,         \* number of invocations of fn made by this benchmark call
    timedCalls,    \* for each recorded time, the invocation it was taken around
    result,        \* <<>> or <<the BenchmarkResult returned>>
    scene,         \* the scene graph handed to gatherTrianglesFromScene
    buffer,        \* <<>> or <<[positions, indices]>>: the extracted buffer
    status,        \* statusElement.textContent
    frames,        \* frames rendered by the animation loop
    log,           \* the stage events of run(), in the order they happened
    recastInitTime,\* <<>> or <<the measured init time>>
    options,       \* <<>> or <<the canonical GenerationOptions>>
    recastNav,     \* benchmarkGeneration: the captured recast handle
    navcatNav,     \* benchmarkGeneration: the captured navcat handle
    buildArgs,     \* the option records each backend's build call received
    recastGenTime, \* <<>> or <<the BenchmarkResult of the recast generation>>
    genResults,    \* <<>> or <<the GenerationResults returned>>
    pathQueries,   \* verifyPaths: the path queries made, in order
    pathResults,   \* <<>> or <<the PathVerification returned>>
    queryResults,  \* the BenchmarkResults of benchmarkQueries, by backend
    errorShown     \* <<>> or <<the text the catch handler shows>>

benchVars == <<name, warmupRuns, runs, workload, i, times, calls, timedCalls, result>>
gatherVars == <<scene, buffer>>
runVars == <<status, frames, log, recastInitTime, options, recastNav, navcatNav,
             buildArgs, recastGenTime, genResults, pathQueries, pathResults, queryResults,
             errorShown>>
vars == <<pc, benchVars, gatherVars, runVars>>

---------------------------------------------------------------------------
(* Bounds of the model *)

MaxWarmup == 2      \* warmupRuns ranges over 0..MaxWarmup in BenchSpec
MaxRuns == 4        \* runs ranges over 1..MaxRuns in BenchSpec
MaxTime == 3        \* an elapsed time ranges over 0..MaxTime in BenchSpec
MaxNodes == 4       \* a scene graph has 1..MaxNodes nodes in GatherSpec
LoadedNodes == 1    \* the loaded model has 1..LoadedNodes nodes in Spec
MaxFrames == 2      \* the animation loop renders at most MaxFrames frames

\* benchmarkQueries passes warmupRuns = 100 and runs = 10_000 (main.ts lines
\* 558-559 and 588-589); the model runs the same two loops with fewer
\* iterations.
QueryWarmupRuns == 2
QueryRuns == 3

---------------------------------------------------------------------------
(* Arithmetic helpers *)

RECURSIVE GCD(_, _)
GCD(a, b) == IF b = 0 THEN a ELSE GCD(b, a % b)

Abs(x) == IF x < 0 THEN -x ELSE x

\* The fraction n/d (d > 0) in lowest terms.
Frac(n, d) ==
    LET g == GCD(Abs(n), d)
    IN  <<n \div g, d \div g>>

FracAdd(a, b) == Frac(a[1] * b[2] + b[1] * a[2], a[2] * b[2])
FracSub(a, b) == Frac(a[1] * b[2] - b[1] * a[2], a[2] * b[2])
FracMul(a, b) == Frac(a[1] * b[1], a[2] * b[2])
FracDivInt(a, n) == Frac(a[1], a[2] * n)

RECURSIVE ISqrtFrom(_, _)
ISqrtFrom(n, r) == IF (r + 1) * (r + 1) > n THEN r ELSE ISqrtFrom(n, r + 1)

\* floor of the square root of a natural
ISqrt(n) == ISqrtFrom(n, 0)

IsSquare(n) == ISqrt(n) * ISqrt(n) = n

\* Math.sqrt of a non-negative fraction in lowest terms: exact when the
\* fraction is a square, otherwise the root is kept symbolically.
MathSqrt(f) ==
    IF IsSquare(f[1]) /\ IsSquare(f[2])
    THEN [exact |-> TRUE, value |-> <<ISqrt(f[1]), ISqrt(f[2])>>]
    ELSE [exact |-> FALSE, value |-> f]

---------------------------------------------------------------------------
(* benchmark(): the statistics, main.ts lines 103-112 *)

RECURSIVE Insert(_, _)
Insert(x, s) ==
    IF s = <<>> THEN <<x>>
    ELSE IF x - Head(s) < 0 THEN <<x>> \o s
    ELSE <<Head(s)>> \o Insert(x, Tail(s))

\* [...times].sort((a, b) => a - b)
RECURSIVE Sorted(_)
Sorted(s) == IF s = <<>> THEN <<>> ELSE Insert(Head(s), Sorted(Tail(s)))

\* times.reduce((a, b) => a + b, 0)
RECURSIVE SumOf(_)
SumOf(s) == IF s = <<>> THEN 0 ELSE Head(s) + SumOf(Tail(s))

\* times.reduce((a, b) => a + b, 0) / times.length
Mean(ts) == Frac(SumOf(ts), Len(ts))

MedianLowerMiddleBug(sorted) == sorted[((Len(sorted) - 1) \div 2) + 1]

\* sorted[Math.floor(sorted.length / 2)]   (0-based index, so + 1 here)
Median(sorted) == sorted[(Len(sorted) \div 2) + 1]

\* times.reduce((sum, time) => sum + (time - mean) ** 2, 0)
RECURSIVE SumSqDev(_, _)
SumSqDev(ts, mean) ==
    IF ts = <<>> THEN <<0, 1>>
    ELSE LET d == FracSub(<<Head(ts), 1>>, mean)
         IN  FracAdd(SumSqDev(Tail(ts), mean), FracMul(d, d))

VarianceSampleBug(ts, mean) ==
    FracDivInt(SumSqDev(ts, mean), IF Len(ts) > 1 THEN Len(ts) - 1 ELSE 1)

\* ... / times.length
Variance(ts, mean) == FracDivInt(SumSqDev(ts, mean), Len(ts))

\* the record benchmark returns
BenchmarkResult(n, w, r, ts) ==
    LET sorted == Sorted(ts)
        mean == Mean(ts)
    IN  [name |-> n, warmupRuns |-> w, runs |-> r, times |-> ts,
         mean |-> mean,
         median |-> Median(sorted),
         min |-> sorted[1],
         max |-> sorted[Len(sorted)],
         stdDev |-> MathSqrt(Variance(ts, mean))]


---------------------------------------------------------------------------
(* gatherTrianglesFromScene, main.ts lines 134-177 *)

\* A scene graph is [n, parent, node]: nodes 1..n, node 1 the root,
\* parent[k] < k the parent of node k > 1, children kept in increasing
\* order of their number (their stored order).  node[k] says whether the
\* node is a mesh and gives its geometry: count is position.count, and
\* index is geometry.index (indexed = FALSE when the geometry has none).
NoMesh == [isMesh |-> FALSE, count |-> 0, indexed |-> FALSE, index |-> <<>>]

MeshNode(c, ix) == [isMesh |-> TRUE, count |-> c, indexed |-> TRUE, index |-> ix]

PlainMesh(c) == [isMesh |-> TRUE, count |-> c, indexed |-> FALSE, index |-> <<>>]

\* The node kinds scenes are built from: a node without geometry, a triangle
\* without an index, an indexed quad, and geometries a loader does not rule
\* out: a vertex count or an index count that is no multiple of 3, an index
\* that names no vertex of its mesh.
NodeKinds ==
    { NoMesh,
      PlainMesh(3), MeshNode(4, <<0, 1, 2, 0, 2, 3>>),
      PlainMesh(4), MeshNode(3, <<0, 1, 3>>), MeshNode(3, <<0, 1>>) }

EmptyScene == [n |-> 0, parent |-> <<>>, node |-> <<>>]

\* the parent maps of the trees on nodes 1..n
Parents(n) ==
    { q \in [1..n -> 0..n] :
        /\ q[1] = 0
        /\ \A k \in 2..n : q[k] >= 1 /\ q[k] < k }

\* sc is one of the scene graphs of at most maxNodes nodes
IsScene(sc, maxNodes) ==
    \E n \in 1..maxNodes : \E p \in Parents(n) : \E g \in [1..n -> NodeKinds] :
        sc = [n |-> n, parent |-> p, node |-> g]

\* object.children of node k, in stored order
RECURSIVE ChildrenFrom(_, _, _)
ChildrenFrom(sc, k, c) ==
    IF c > sc.n THEN <<>>
    ELSE IF sc.parent[c] = k THEN <<c>> \o ChildrenFrom(sc, k, c + 1)
    ELSE ChildrenFrom(sc, k, c + 1)

Children(sc, k) == ChildrenFrom(sc, k, k + 1)

\* the three numbers pushed for vertex v of node k: the components of the
\* vertex after applyMatrix4(matrixWorld), kept symbolically
WorldVertex(k, v) == << <<k, v, "x">>, <<k, v, "y">>, <<k, v, "z">> >>

RECURSIVE PushVertices(_, _, _)
PushVertices(k, v, count) ==
    IF v >= count THEN <<>>
    ELSE WorldVertex(k, v) \o PushVertices(k, v + 1, count)

\* the indices pushed for one mesh: index.getX(i) + vertexOffset, or
\* i + vertexOffset for i < position.count when there is no index
PushIndices(g, vertexOffset) ==
    IF g.indexed
    THEN [j \in 1..Len(g.index) |-> g.index[j] + vertexOffset]
    ELSE [j \in 1..g.count |-> (j - 1) + vertexOffset]

OffsetNotAdvancedBug(vertexOffset, g) == vertexOffset

OffsetCountsFloatsBug(vertexOffset, g) == vertexOffset + 3 * g.count

\* vertexOffset += position.count
NextVertexOffset(vertexOffset, g) == vertexOffset + g.count

\* the traverse callback applied to node k
VisitNode(acc, sc, k) ==
    LET g == sc.node[k]
    IN  IF g.isMesh
        THEN [positions |-> acc.positions \o PushVertices(k, 0, g.count),
              indices |-> acc.indices \o PushIndices(g, acc.vertexOffset),
              vertexOffset |-> NextVertexOffset(acc.vertexOffset, g)]
        ELSE acc

\* Object3D.traverse: the callback on the node, then traverse on each child
RECURSIVE Traverse(_, _, _)
RECURSIVE TraverseAll(_, _, _)
Traverse(acc, sc, k) == TraverseAll(VisitNode(acc, sc, k), sc, Children(sc, k))
TraverseAll(acc, sc, ks) ==
    IF ks = <<>> THEN acc
    ELSE TraverseAll(Traverse(acc, sc, Head(ks)), sc, Tail(ks))

GatherTrianglesFromScene(sc) ==
    LET acc == Traverse([positions |-> <<>>, indices |-> <<>>, vertexOffset |-> 0],
                        sc, 1)
    IN  [positions |-> acc.positions, indices |-> acc.indices]

---------------------------------------------------------------------------
(* Generation options, main.ts lines 262-356.  Fixed point, in hundredths. *)

\* a * b of two fixed-point numbers
FxMul(a, b) == (a * b) \div 100

\* Math.ceil(a / b), as a fixed-point number
FxCeilDiv(a, b) == ((a + b - 1) \div b) * 100

CreateGenerationOptions ==
    LET cellSize == 15
        cellHeight == 30
        walkableClimbWorld == 50
        walkableHeightWorld == 100
        walkableRadiusWorld == 20
    IN  [cellSize |-> cellSize,
         cellHeight |-> cellHeight,
         walkableRadiusVoxels |-> FxCeilDiv(walkableRadiusWorld, cellHeight),
         walkableRadiusWorld |-> walkableRadiusWorld,
         walkableClimbVoxels |-> FxCeilDiv(walkableClimbWorld, cellHeight),
         walkableClimbWorld |-> walkableClimbWorld,
         walkableHeightVoxels |-> FxCeilDiv(walkableHeightWorld, cellHeight),
         walkableHeightWorld |-> walkableHeightWorld,
         walkableSlopeAngleDegrees |-> 4500,
         borderSize |-> 0,
         minRegionArea |-> 800,
         mergeRegionArea |-> 2000,
         maxSimplificationError |-> 130,
         maxEdgeLength |-> 600,
         maxVerticesPerPoly |-> 600,
         detailSampleDistance |-> 500,
         detailSampleMaxError |-> 130]

RecastOptionsSquaredBug(o) ==
    [cs |-> o.cellSize,
     ch |-> o.cellHeight,
     walkableRadius |-> o.walkableRadiusVoxels,
     walkableClimb |-> o.walkableClimbVoxels,
     walkableHeight |-> o.walkableHeightVoxels,
     walkableSlopeAngle |-> o.walkableSlopeAngleDegrees,
     borderSize |-> o.borderSize,
     minRegionArea |-> FxMul(o.minRegionArea, o.minRegionArea),
     mergeRegionArea |-> FxMul(o.mergeRegionArea, o.mergeRegionArea),
     maxSimplificationError |-> o.maxSimplificationError,
     maxEdgeLen |-> o.maxEdgeLength,
     maxVertsPerPoly |-> o.maxVerticesPerPoly,
     detailSampleDist |-> o.detailSampleDistance,
     detailSampleMaxError |-> o.detailSampleMaxError]

\* const recastOptions = { ... }
RecastOptions(o) ==
    [cs |-> o.cellSize,
     ch |-> o.cellHeight,
     walkableRadius |-> o.walkableRadiusVoxels,
     walkableClimb |-> o.walkableClimbVoxels,
     walkableHeight |-> o.walkableHeightVoxels,
     walkableSlopeAngle |-> o.walkableSlopeAngleDegrees,
     borderSize |-> o.borderSize,
     minRegionArea |-> o.minRegionArea,
     mergeRegionArea |-> o.mergeRegionArea,
     maxSimplificationError |-> o.maxSimplificationError,
     maxEdgeLen |-> o.maxEdgeLength,
     maxVertsPerPoly |-> o.maxVerticesPerPoly,
     detailSampleDist |-> o.detailSampleDistance,
     detailSampleMaxError |-> o.detailSampleMaxError]

\* const navcatOptions = { ... }
NavcatOptions(o) ==
    [cellSize |-> o.cellSize,
     cellHeight |-> o.cellHeight,
     walkableRadiusVoxels |-> o.walkableRadiusVoxels,
     walkableRadiusWorld |-> o.walkableRadiusWorld,
     walkableClimbVoxels |-> o.walkableClimbVoxels,
     walkableClimbWorld |-> o.walkableClimbWorld,
     walkableHeightVoxels |-> o.walkableHeightVoxels,
     walkableHeightWorld |-> o.walkableHeightWorld,
     walkableSlopeAngleDegrees |-> o.walkableSlopeAngleDegrees,
     borderSize |-> o.borderSize,
     minRegionArea |-> FxMul(o.minRegionArea, o.minRegionArea),
     mergeRegionArea |-> FxMul(o.mergeRegionArea, o.mergeRegionArea),
     maxSimplificationError |-> o.maxSimplificationError,
     maxEdgeLength |-> o.maxEdgeLength,
     maxVerticesPerPoly |-> o.maxVerticesPerPoly,
     detailSampleDistance |-> FxMul(o.cellSize, o.detailSampleDistance),
     detailSampleMaxError |-> FxMul(o.cellHeight, o.detailSampleMaxError)]

---------------------------------------------------------------------------
(* The operations handed to benchmark() *)

\* no navmesh handle: undefined (recast, main.ts line 298 and 323) or
\* null (navcat, line 334)
NoHandle == 0

\* benchmark's default parameters
DefaultWarmupRuns == 3
DefaultRuns == 10

\* What one invocation of the operation can do.  produced: a build call
\* returned a navmesh handle; thrown: the call threw.  A build entry point
\* yields a handle or none.  A library call handed a missing handle is
\* outside what the libraries define: it may throw or return.
ThrowsOn(handle) == IF handle = NoHandle THEN BOOLEAN ELSE {FALSE}

Outcomes(n) ==
    CASE n \in {"recast generation", "navcat generation"} ->
            { [produced |-> b, thrown |-> FALSE] : b \in BOOLEAN }
      [] n = "navcat query" ->
            { [produced |-> FALSE, thrown |-> t] :
                t \in ThrowsOn(genResults[1].navcatNav) }
      [] OTHER -> { [produced |-> FALSE, thrown |-> FALSE] }

\* The handle a build call returns: a new object on every invocation, named
\* here by the number of the invocation that made it.
Produced(out) == IF out.produced THEN calls + 1 ELSE NoHandle

InvokeKeepFirstBug(out) ==
    CASE name = "recast generation" ->
            /\ recastNav' = IF recastNav # NoHandle THEN recastNav ELSE Produced(out)
            /\ buildArgs' = [buildArgs EXCEPT !.recast = @ \cup
                    {[input |-> buffer[1], options |-> RecastOptions(options[1])]}]
            /\ UNCHANGED navcatNav
      [] name = "navcat generation" ->
            /\ navcatNav' = IF navcatNav # NoHandle THEN navcatNav ELSE Produced(out)
            /\ buildArgs' = [buildArgs EXCEPT !.navcat = @ \cup
                    {[input |-> buffer[1], options |-> NavcatOptions(options[1])]}]
            /\ UNCHANGED recastNav
      [] OTHER -> UNCHANGED <<recastNav, navcatNav, buildArgs>>

\* fn(): the closure handed to benchmark, by the benchmark's name
\*   "recast generation"  lines 317-324     "recast query"  lines 555-557
\*   "navcat generation"  lines 357-361     "navcat query"  lines 579-587
\*   "op"                 an operation without effect on the harness
Invoke(out) ==
    CASE name = "recast generation" ->
            /\ recastNav' = Produced(out)
            /\ buildArgs' = [buildArgs EXCEPT !.recast = @ \cup
                    {[input |-> buffer[1], options |-> RecastOptions(options[1])]}]
            /\ UNCHANGED navcatNav
      [] name = "navcat generation" ->
            /\ navcatNav' = Produced(out)
            /\ buildArgs' = [buildArgs EXCEPT !.navcat = @ \cup
                    {[input |-> buffer[1], options |-> NavcatOptions(options[1])]}]
            /\ UNCHANGED recastNav
      [] OTHER -> UNCHANGED <<recastNav, navcatNav, buildArgs>>

\* where benchmark returns to
ReturnTo(n) ==
    CASE n = "recast generation" -> "recast_gen_done"
      [] n = "navcat generation" -> "navcat_gen_done"
      [] n = "recast query" -> "recast_query_done"
      [] n = "navcat query" -> "navcat_query_done"
      [] OTHER -> "done"

\* the elapsed time of every measured call of a navmesh operation: the
\* harness never branches on a measured value, so one value stands for all
UnitWorkload(r) == [k \in 1..r |-> 1]

\* run().catch: the error's text is appended to the page
Raise(text) ==
    /\ pc' = "failed"
    /\ errorShown' = <<text>>
    /\ log' = Append(log, "error")

---------------------------------------------------------------------------
(* benchmark(name, fn, warmupRuns, runs), main.ts lines 81-125 *)

\* entry: the parameters are bound and the warmup loop starts at i = 0
BenchCall(n, w, r, wl) ==
    /\ pc' = "warmup"
    /\ name' = n
    /\ warmupRuns' = w
    /\ runs' = r
    /\ workload' = wl
    /\ i' = 0
    /\ times' = <<>>
    /\ calls' = 0
    /\ timedCalls' = <<>>
    /\ result' = <<>>

WarmupLoopCondOffByOneBug == i <= warmupRuns

\* for (let i = 0; i < warmupRuns; i++)
WarmupLoopCond == i < warmupRuns

\* for (let i = 0; i < runs; i++)
MeasureLoopCond == i < runs

\* the body of the warmup loop: fn()
WarmupIteration ==
    /\ pc = "warmup"
    /\ WarmupLoopCond
    /\ \E out \in Outcomes(name) :
         /\ Invoke(out)
         /\ calls' = calls + 1
         /\ IF out.thrown
            THEN Raise("query threw") /\ UNCHANGED i
            ELSE i' = i + 1 /\ UNCHANGED <<pc, errorShown, log>>
    /\ UNCHANGED <<name, warmupRuns, runs, workload, times, timedCalls, result>>
    /\ UNCHANGED <<gatherVars, status, frames, recastInitTime, options,
                   recastGenTime, genResults, pathQueries, pathResults,
                   queryResults>>

\* the warmup loop ends; const times = []; the measured loop starts at i = 0
WarmupExit ==
    /\ pc = "warmup"
    /\ ~WarmupLoopCond
    /\ pc' = "measure"
    /\ times' = <<>>
    /\ i' = 0
    /\ UNCHANGED <<name, warmupRuns, runs, workload, calls, timedCalls, result>>
    /\ UNCHANGED <<gatherVars, runVars>>

\* the body of the measured loop: start = now(); fn(); end = now();
\* times.push(end - start)
MeasuredIteration ==
    /\ pc = "measure"
    /\ MeasureLoopCond
    /\ \E out \in Outcomes(name) :
         /\ Invoke(out)
         /\ calls' = calls + 1
         /\ IF out.thrown
            THEN Raise("query threw") /\ UNCHANGED <<i, times, timedCalls>>
            ELSE /\ times' = Append(times, workload[i + 1])
                 /\ timedCalls' = Append(timedCalls, calls + 1)
                 /\ i' = i + 1
                 /\ UNCHANGED <<pc, errorShown, log>>
    /\ UNCHANGED <<name, warmupRuns, runs, workload, result>>
    /\ UNCHANGED <<gatherVars, status, frames, recastInitTime, options,
                   recastGenTime, genResults, pathQueries, pathResults,
                   queryResults>>

\* the measured loop ends; the statistics are computed and returned
BenchmarkReturn ==
    /\ pc = "measure"
    /\ ~MeasureLoopCond
    /\ result' = <<BenchmarkResult(name, warmupRuns, runs, times)>>
    /\ pc' = ReturnTo(name)
    /\ UNCHANGED <<name, warmupRuns, runs, workload, i, times, calls, timedCalls>>
    /\ UNCHANGED <<gatherVars, runVars>>

BenchNext == WarmupIteration \/ WarmupExit \/ MeasuredIteration \/ BenchmarkReturn

\* the initial value of everything run() owns
RunIdle ==
    /\ status = ""
    /\ frames = 0
    /\ log = <<>>
    /\ recastInitTime = <<>>
    /\ options = <<>>
    /\ recastNav = NoHandle
    /\ navcatNav = NoHandle
    /\ buildArgs = [recast |-> {}, navcat |-> {}]
    /\ recastGenTime = <<>>
    /\ genResults = <<>>
    /\ pathQueries = <<>>
    /\ pathResults = <<>>
    /\ queryResults = [recast |-> <<>>, navcat |-> <<>>]
    /\ errorShown = <<>>

BenchIdle ==
    /\ name = ""
    /\ warmupRuns = 0
    /\ runs = 0
    /\ workload = <<>>
    /\ i = 0
    /\ times = <<>>
    /\ calls = 0
    /\ timedCalls = <<>>
    /\ result = <<>>

\* the operations benchmark is called on in BenchSpec: every series of at
\* most MaxRuns elapsed times in 0..MaxTime, and the two worked series of
\* the statistics
Workloads ==
    UNION { [1..n -> 0..MaxTime] : n \in 1..MaxRuns }
      \cup { <<1, 2, 3, 4>>, <<2, 4, 4, 4, 5, 5, 7, 9>> }

\* benchmark("op", fn, w, r) has just been entered
BenchInit ==
    /\ pc = "warmup"
    /\ name = "op"
    /\ warmupRuns \in 0..MaxWarmup
    /\ workload \in Workloads
    /\ runs = Len(workload)
    /\ i = 0
    /\ times = <<>>
    /\ calls = 0
    /\ timedCalls = <<>>
    /\ result = <<>>
    /\ scene = EmptyScene
    /\ buffer = <<>>
    /\ RunIdle

BenchSpec == BenchInit /\ [][BenchNext]_vars

---------------------------------------------------------------------------
(* gatherTrianglesFromScene applied to one scene *)

GatherTriangles ==
    /\ pc = "gather"
    /\ buffer' = <<GatherTrianglesFromScene(scene)>>
    /\ pc' = "gathered"
    /\ UNCHANGED <<scene, benchVars, runVars>>

GatherInit ==
    /\ pc = "gather"
    /\ IsScene(scene, MaxNodes)
    /\ buffer = <<>>
    /\ BenchIdle
    /\ RunIdle

GatherSpec == GatherInit /\ [][GatherTriangles]_vars

---------------------------------------------------------------------------
(* Claims about benchmark(), checked under BenchSpec *)

Returned == result # <<>>

\* C1: one call of benchmark invokes the operation exactly warmupRuns + runs
\* times and records a time around exactly the last runs invocations, none
\* around the first warmupRuns; the returned times has length runs whatever
\* warmupRuns is.
C1_InvocationsAndTimes ==
    /\ pc = "warmup" => times = <<>> /\ timedCalls = <<>>
    /\ Returned =>
         /\ calls = warmupRuns + runs
         /\ Len(result[1].times) = runs
         /\ timedCalls = [k \in 1..runs |-> warmupRuns + k]

C1_Witness ==
    /\ Returned
    /\ warmupRuns = 2
    /\ runs = 3
    /\ Len(result[1].times) = 3

CountLess(ts, v) == Cardinality({j \in 1..Len(ts) : ts[j] < v})
CountAtMost(ts, v) == Cardinality({j \in 1..Len(ts) : ts[j] <= v})

\* the value at 0-based position k of the ascending sort of ts, said by rank
IsOrderStatistic(ts, k, v) ==
    /\ \E j \in 1..Len(ts) : ts[j] = v
    /\ CountLess(ts, v) <= k
    /\ k < CountAtMost(ts, v)

\* C2: with S the ascending sort of times, min = S[0], max = S[runs-1] and
\* median = S[floor(runs/2)], the upper-middle element when runs is even
\* (times = [1,2,3,4] gives median 3); hence min <= median <= max.
C2_OrderStatistics ==
    Returned =>
        LET r == result[1]
        IN  /\ IsOrderStatistic(r.times, 0, r.min)
            /\ IsOrderStatistic(r.times, runs - 1, r.max)
            /\ IsOrderStatistic(r.times, runs \div 2, r.median)
            /\ r.min <= r.median
            /\ r.median <= r.max
            /\ r.times = <<1, 2, 3, 4>> => r.median = 3

C2_Witness ==
    /\ Returned
    /\ result[1].times = <<1, 2, 3, 4>>
    /\ result[1].median = 3
    /\ result[1].min = 1
    /\ result[1].max = 4

RECURSIVE SumFirst(_, _)
SumFirst(ts, k) == IF k = 0 THEN 0 ELSE SumFirst(ts, k - 1) + ts[k]

RECURSIVE SumSquaresFirst(_, _)
SumSquaresFirst(ts, k) ==
    IF k = 0 THEN 0 ELSE SumSquaresFirst(ts, k - 1) + ts[k] * ts[k]

\* the square of a stdDev value, as a fraction
SquareOfRoot(sd) ==
    IF sd.exact THEN <<sd.value[1] * sd.value[1], sd.value[2] * sd.value[2]>>
    ELSE sd.value

\* C3: mean is the sum of the raw times divided by runs, and stdDev is the
\* square root of the population variance (divided by runs, not runs - 1):
\* stdDev^2 * runs^2 = runs * sum(t^2) - sum(t)^2.  For
\* times = [2,4,4,4,5,5,7,9], mean = 5 and stdDev = 2.
C3_MeanAndStdDev ==
    Returned =>
        LET r == result[1]
            n == runs
            total == SumFirst(r.times, n)
            squares == SumSquaresFirst(r.times, n)
            sq == SquareOfRoot(r.stdDev)
        IN  /\ r.mean[2] > 0
            /\ r.mean[1] * n = r.mean[2] * total
            /\ sq[2] > 0
            /\ sq[1] * n * n = sq[2] * (n * squares - total * total)
            /\ r.times = <<2, 4, 4, 4, 5, 5, 7, 9>> =>
                 /\ r.mean = <<5, 1>>
                 /\ r.stdDev = [exact |-> TRUE, value |-> <<2, 1>>]

C3_Witness ==
    /\ Returned
    /\ result[1].times = <<2, 4, 4, 4, 5, 5, 7, 9>>
    /\ result[1].mean = <<5, 1>>
    /\ result[1].stdDev = [exact |-> TRUE, value |-> <<2, 1>>]

---------------------------------------------------------------------------
(* Claims about gatherTrianglesFromScene, checked under GatherSpec *)

Gathered == buffer # <<>>

IndicesValid(b) ==
    /\ \A j \in 1..Len(b.indices) : b.indices[j] < Len(b.positions) \div 3
    /\ Len(b.indices) % 3 = 0

\* a mesh whose geometry is a list of triangles over its own vertices
WellFormedMesh(g) ==
    IF g.indexed
    THEN /\ Len(g.index) % 3 = 0
         /\ \A j \in 1..Len(g.index) : g.index[j] >= 0 /\ g.index[j] < g.count
    ELSE g.count % 3 = 0

WellFormedScene(sc) ==
    \A k \in 1..sc.n : sc.node[k].isMesh => WellFormedMesh(sc.node[k])

\* C4 as claimed: for any scene graph, every element of indices is less than
\* the number of positions and indices.length is a multiple of 3.
C4_AnySceneGraph == Gathered => IndicesValid(buffer[1])

\* C4 as amended: the same, for every scene graph in which each mesh is a
\* list of triangles over its own vertices (its index count, or its vertex
\* count when it has no index, is a multiple of 3, and every index it holds
\* is less than its vertex count).
C4_WellFormedScenes ==
    (Gathered /\ WellFormedScene(scene)) => IndicesValid(buffer[1])

C4_Witness ==
    /\ Gathered
    /\ WellFormedScene(scene)
    /\ scene.n = 3
    /\ scene.node[2] = MeshNode(4, <<0, 1, 2, 0, 2, 3>>)
    /\ scene.node[3] = PlainMesh(3)
    /\ buffer[1].indices = <<0, 1, 2, 0, 2, 3, 4, 5, 6>>

\* the path of node numbers from the root to node k
RECURSIVE PathTo(_, _)
PathTo(sc, k) == IF k = 1 THEN <<1>> ELSE Append(PathTo(sc, sc.parent[k]), k)

\* p comes before q in pre-order: p is a proper prefix of q, or at the first
\* place they differ p takes the earlier sibling
RECURSIVE PathBefore(_, _)
PathBefore(p, q) ==
    IF q = <<>> THEN FALSE
    ELSE IF p = <<>> THEN TRUE
    ELSE IF Head(p) # Head(q) THEN Head(p) < Head(q)
    ELSE PathBefore(Tail(p), Tail(q))

VisitedBefore(sc, a, b) == PathBefore(PathTo(sc, a), PathTo(sc, b))

MeshesOf(sc) == {k \in 1..sc.n : sc.node[k].isMesh}

RECURSIVE CountSum(_, _)
CountSum(sc, ks) ==
    IF ks = {} THEN 0
    ELSE LET k == CHOOSE x \in ks : TRUE
         IN  sc.node[k].count + CountSum(sc, ks \ {k})

\* the total vertex count of the meshes visited before node k
VerticesBefore(sc, k) ==
    CountSum(sc, {m \in MeshesOf(sc) : VisitedBefore(sc, m, k)})

OwnIndices(g) == IF g.indexed THEN g.index ELSE [j \in 1..g.count |-> j - 1]

\* the indices of the meshes from the j-th visited on
RECURSIVE ExpectedIndicesFrom(_, _)
ExpectedIndicesFrom(sc, j) ==
    IF j > Cardinality(MeshesOf(sc)) THEN <<>>
    ELSE LET k == CHOOSE m \in MeshesOf(sc) :
                    Cardinality({x \in MeshesOf(sc) : VisitedBefore(sc, x, m)}) = j - 1
             own == OwnIndices(sc.node[k])
         IN  [x \in 1..Len(own) |-> own[x] + VerticesBefore(sc, k)]
               \o ExpectedIndicesFrom(sc, j + 1)

TwoSiblingMeshes ==
    [n |-> 3, parent |-> <<0, 1, 1>>,
     node |-> <<NoMesh, PlainMesh(3), PlainMesh(3)>>]

\* C5: mesh nodes are visited in pre-order; the j-th mesh visited appends its
\* indices (its own index list, or 0..vertexCount-1 when it has none) each
\* increased by the total vertex count of the meshes visited before it, and
\* its vertices after theirs; nodes without mesh geometry add nothing.  Two
\* sibling meshes of 3 vertices without indices give 6 positions and
\* indices [0,1,2,3,4,5].
C5_PreOrderOffsets ==
    Gathered =>
        LET b == buffer[1]
        IN  /\ b.indices = ExpectedIndicesFrom(scene, 1)
            /\ Len(b.positions) = 3 * CountSum(scene, MeshesOf(scene))
            /\ \A k \in MeshesOf(scene) : \A v \in 0..(scene.node[k].count - 1) :
                 b.positions[3 * (VerticesBefore(scene, k) + v) + 1] = <<k, v, "x">>
            /\ scene = TwoSiblingMeshes =>
                 /\ Len(b.positions) \div 3 = 6
                 /\ b.indices = <<0, 1, 2, 3, 4, 5>>

C5_Witness ==
    /\ Gathered
    /\ scene = TwoSiblingMeshes
    /\ Len(buffer[1].positions) = 18
    /\ buffer[1].indices = <<0, 1, 2, 3, 4, 5>>

---------------------------------------------------------------------------
(* run(), main.ts lines 637-690, and the functions it calls *)

RunBodyQueriesFirstBug ==
    <<"setupScene", "initializeRecast", "createGenerationOptions",
      "benchmarkGeneration", "visualizeNavMeshes", "benchmarkQueries",
      "setupGUI", "verifyPaths", "displaySummary", "done">>

\* the calls of run(), in the order of its statements
RunBody ==
    <<"setupScene", "initializeRecast", "createGenerationOptions",
      "benchmarkGeneration", "visualizeNavMeshes", "verifyPaths",
      "setupGUI", "benchmarkQueries", "displaySummary", "done">>

\* the statement of run() that follows the call of f
After(f) == RunBody[(CHOOSE k \in 1..Len(RunBody) : RunBody[k] = f) + 1]

\* the test coordinates of verifyPaths (lines 453-455), in hundredths
StartPos == <<-394, 26, 400>>
EndPos == <<252, 239, -220>>
HalfExtents == <<100, 100, 100>>

\* the number of points a path query can return: none, or some
PathLengths == {0, 2}

\* run() up to the first await: the status overlay is created, setupScene
\* sets up the renderer and starts loading the model
RunStart ==
    /\ pc = "run"
    /\ status' = "Loading model..."
    /\ pc' = "await_load"
    /\ UNCHANGED <<benchVars, gatherVars, frames, log, recastInitTime, options,
                   recastNav, navcatNav, buildArgs, recastGenTime, genResults,
                   pathQueries, pathResults, queryResults, errorShown>>

\* loadGLB rejects: setupScene and run reject, the catch handler shows it
LoadRejected ==
    /\ pc = "await_load"
    /\ Raise("model failed to load")
    /\ UNCHANGED <<benchVars, gatherVars, status, frames, recastInitTime,
                   options, recastNav, navcatNav, buildArgs, recastGenTime,
                   genResults, pathQueries, pathResults, queryResults>>

\* loadGLB resolves: the rest of setupScene (lines 227-242).  animate()
\* renders the first frame, then the geometry is extracted.
SetupSceneLoaded ==
    /\ pc = "await_load"
    /\ \E n \in 1..LoadedNodes : \E p \in Parents(n) : \E g \in [1..n -> NodeKinds] :
         LET sc == [n |-> n, parent |-> p, node |-> g]
         IN  /\ scene' = sc
             /\ buffer' = <<GatherTrianglesFromScene(sc)>>
    /\ frames' = 1
    /\ log' = log \o <<"extract.start", "extract.end">>
    /\ status' = "Triangles, Vertices"
    /\ pc' = After("setupScene")
    /\ UNCHANGED <<benchVars, recastInitTime, options, recastNav, navcatNav,
                   buildArgs, recastGenTime, genResults, pathQueries,
                   pathResults, queryResults, errorShown>>

\* initializeRecast up to its await (lines 654-655, 250-251)
InitializeRecastStart ==
    /\ pc = "initializeRecast"
    /\ status' = "Initializing Recast..."
    /\ log' = Append(log, "init.start")
    /\ pc' = "await_init"
    /\ UNCHANGED <<benchVars, gatherVars, frames, recastInitTime, options,
                   recastNav, navcatNav, buildArgs, recastGenTime, genResults,
                   pathQueries, pathResults, queryResults, errorShown>>

\* function animate(): a frame of the animation loop, which the browser runs
\* only while no other code is running: at an await and after run() ends
Animate ==
    /\ pc \in {"await_init", "done", "failed"}
    /\ frames >= 1
    /\ frames < MaxFrames
    /\ frames' = frames + 1
    /\ UNCHANGED <<pc, benchVars, gatherVars, status, log, recastInitTime,
                   options, recastNav, navcatNav, buildArgs, recastGenTime,
                   genResults, pathQueries, pathResults, queryResults,
                   errorShown>>

\* recastNavigation.init() rejects
InitRejected ==
    /\ pc = "await_init"
    /\ Raise("recast init failed")
    /\ UNCHANGED <<benchVars, gatherVars, status, frames, recastInitTime,
                   options, recastNav, navcatNav, buildArgs, recastGenTime,
                   genResults, pathQueries, pathResults, queryResults>>

\* recastNavigation.init() resolves: the init time is taken (lines 252-255)
InitResolved ==
    /\ pc = "await_init"
    /\ recastInitTime' = <<1>>
    /\ log' = Append(log, "init.end")
    /\ pc' = After("initializeRecast")
    /\ UNCHANGED <<benchVars, gatherVars, status, frames, options, recastNav,
                   navcatNav, buildArgs, recastGenTime, genResults,
                   pathQueries, pathResults, queryResults, errorShown>>

\* const options = createGenerationOptions()
CreateOptions ==
    /\ pc = "createGenerationOptions"
    /\ options' = <<CreateGenerationOptions>>
    /\ pc' = After("createGenerationOptions")
    /\ UNCHANGED <<benchVars, gatherVars, status, frames, log, recastInitTime,
                   recastNav, navcatNav, buildArgs, recastGenTime, genResults,
                   pathQueries, pathResults, queryResults, errorShown>>

\* benchmarkGeneration, lines 296-324: up to the call of benchmark
BenchmarkGenerationStart ==
    /\ pc = "benchmarkGeneration"
    /\ status' = "Benchmarking Recast generation..."
    /\ log' = Append(log, "generation.start")
    /\ recastNav' = NoHandle
    /\ BenchCall("recast generation", DefaultWarmupRuns, DefaultRuns,
                 UnitWorkload(DefaultRuns))
    /\ UNCHANGED <<gatherVars, frames, recastInitTime, options, navcatNav,
                   buildArgs, recastGenTime, genResults, pathQueries,
                   pathResults, queryResults, errorShown>>

\* lines 328-330: if (!recastNav) throw
RecastGenerationFailed ==
    /\ pc = "recast_gen_done"
    /\ recastNav = NoHandle
    /\ Raise("Recast navmesh generation failed")
    /\ recastGenTime' = result
    /\ UNCHANGED <<benchVars, gatherVars, status, frames, recastInitTime,
                   options, recastNav, navcatNav, buildArgs, genResults,
                   pathQueries, pathResults, queryResults>>

\* lines 332-361: the navcat half, up to the call of benchmark
NavcatGenerationStart ==
    /\ pc = "recast_gen_done"
    /\ recastNav # NoHandle
    /\ recastGenTime' = result
    /\ status' = "Benchmarking Navcat generation..."
    /\ navcatNav' = NoHandle
    /\ BenchCall("navcat generation", DefaultWarmupRuns, DefaultRuns,
                 UnitWorkload(DefaultRuns))
    /\ UNCHANGED <<gatherVars, frames, log, recastInitTime, options, recastNav,
                   buildArgs, genResults, pathQueries, pathResults,
                   queryResults, errorShown>>

\* lines 363-371: benchmarkGeneration returns the GenerationResults
BenchmarkGenerationReturn ==
    /\ pc = "navcat_gen_done"
    /\ genResults' = <<[navcatNav |-> navcatNav,
                        navcatGenTime |-> result[1],
                        recastNav |-> recastNav,
                        recastGenTime |-> recastGenTime[1]]>>
    /\ log' = Append(log, "generation.end")
    /\ pc' = After("benchmarkGeneration")
    /\ UNCHANGED <<benchVars, gatherVars, status, frames, recastInitTime,
                   options, recastNav, navcatNav, buildArgs, recastGenTime,
                   pathQueries, pathResults, queryResults, errorShown>>

\* visualizeNavMeshes, lines 378-394
VisualizeNavMeshes ==
    /\ pc = "visualizeNavMeshes"
    /\ \E thrown \in ThrowsOn(genResults[1].navcatNav) :
         IF thrown
         THEN /\ pc' = "failed"
              /\ errorShown' = <<"TypeError">>
              /\ log' = log \o <<"visualize.start", "error">>
         ELSE /\ pc' = After("visualizeNavMeshes")
              /\ log' = log \o <<"visualize.start", "visualize.end">>
              /\ UNCHANGED errorShown
    /\ UNCHANGED <<benchVars, gatherVars, status, frames, recastInitTime,
                   options, recastNav, navcatNav, buildArgs, recastGenTime,
                   genResults, pathQueries, pathResults, queryResults>>

\* navcat.findPath(genResults.navcatNav, start, end, halfExtents, filter)
NavcatPathQuery ==
    [backend |-> "navcat", nav |-> genResults[1].navcatNav,
     start |-> StartPos, end |-> EndPos, halfExtents |-> <<HalfExtents>>]

\* new NavMeshQuery(genResults.recastNav).computePath(startPos, endPos):
\* no half extents are passed
RecastPathQuery ==
    [backend |-> "recast", nav |-> genResults[1].recastNav,
     start |-> StartPos, end |-> EndPos, halfExtents |-> <<>>]

\* verifyPaths, lines 445-534
VerifyPaths ==
    /\ pc = "verifyPaths"
    /\ status' = "Verifying paths..."
    /\ \E thrown \in ThrowsOn(genResults[1].navcatNav) :
         IF thrown
         THEN /\ pc' = "failed"
              /\ errorShown' = <<"TypeError">>
              /\ log' = log \o <<"paths.start", "error">>
              /\ pathQueries' = Append(pathQueries, NavcatPathQuery)
              /\ UNCHANGED pathResults
         ELSE /\ \E np \in PathLengths, rp \in PathLengths :
                   pathResults' = <<[navcatPath |-> np, recastPath |-> rp]>>
              /\ pathQueries' = pathQueries \o <<NavcatPathQuery, RecastPathQuery>>
              /\ log' = log \o <<"paths.start", "paths.end">>
              /\ pc' = After("verifyPaths")
              /\ UNCHANGED errorShown
    /\ UNCHANGED <<benchVars, gatherVars, frames, recastInitTime, options,
                   recastNav, navcatNav, buildArgs, recastGenTime, genResults,
                   queryResults>>

\* setupGUI, lines 396-439
SetupGUI ==
    /\ pc = "setupGUI"
    /\ log' = Append(log, "gui")
    /\ pc' = After("setupGUI")
    /\ UNCHANGED <<benchVars, gatherVars, status, frames, recastInitTime,
                   options, recastNav, navcatNav, buildArgs, recastGenTime,
                   genResults, pathQueries, pathResults, queryResults,
                   errorShown>>

\* benchmarkQueries, lines 540-560: up to the first call of benchmark
BenchmarkQueriesStart ==
    /\ pc = "benchmarkQueries"
    /\ status' = "Benchmarking queries..."
    /\ log' = Append(log, "queries.start")
    /\ BenchCall("recast query", QueryWarmupRuns, QueryRuns, UnitWorkload(QueryRuns))
    /\ UNCHANGED <<gatherVars, frames, recastInitTime, options, recastNav,
                   navcatNav, buildArgs, recastGenTime, genResults,
                   pathQueries, pathResults, queryResults, errorShown>>

\* lines 562-590: the navcat half, up to the call of benchmark
NavcatQueryStart ==
    /\ pc = "recast_query_done"
    /\ queryResults' = [queryResults EXCEPT !.recast = result]
    /\ BenchCall("navcat query", QueryWarmupRuns, QueryRuns, UnitWorkload(QueryRuns))
    /\ UNCHANGED <<gatherVars, status, frames, log, recastInitTime, options,
                   recastNav, navcatNav, buildArgs, recastGenTime, genResults,
                   pathQueries, pathResults, errorShown>>

\* lines 592-597: benchmarkQueries returns
BenchmarkQueriesReturn ==
    /\ pc = "navcat_query_done"
    /\ queryResults' = [queryResults EXCEPT !.navcat = result]
    /\ log' = Append(log, "queries.end")
    /\ pc' = After("benchmarkQueries")
    /\ UNCHANGED <<benchVars, gatherVars, status, frames, recastInitTime,
                   options, recastNav, navcatNav, buildArgs, recastGenTime,
                   genResults, pathQueries, pathResults, errorShown>>

\* displaySummary, lines 604-631, and the end of run()
DisplaySummary ==
    /\ pc = "displaySummary"
    /\ status' = "=== BENCHMARK RESULTS ==="
    /\ log' = Append(log, "summary")
    /\ pc' = After("displaySummary")
    /\ UNCHANGED <<benchVars, gatherVars, frames, recastInitTime, options,
                   recastNav, navcatNav, buildArgs, recastGenTime, genResults,
                   pathQueries, pathResults, queryResults, errorShown>>

Init ==
    /\ pc = "run"
    /\ BenchIdle
    /\ scene = EmptyScene
    /\ buffer = <<>>
    /\ RunIdle

Next ==
    \/ RunStart
    \/ LoadRejected
    \/ SetupSceneLoaded
    \/ InitializeRecastStart
    \/ Animate
    \/ InitRejected
    \/ InitResolved
    \/ CreateOptions
    \/ BenchmarkGenerationStart
    \/ WarmupIteration
    \/ WarmupExit
    \/ MeasuredIteration
    \/ BenchmarkReturn
    \/ RecastGenerationFailed
    \/ NavcatGenerationStart
    \/ BenchmarkGenerationReturn
    \/ VisualizeNavMeshes
    \/ VerifyPaths
    \/ SetupGUI
    \/ BenchmarkQueriesStart
    \/ NavcatQueryStart
    \/ BenchmarkQueriesReturn
    \/ DisplaySummary

Spec == Init /\ [][Next]_vars

---------------------------------------------------------------------------
(* Claims about run() and the functions it calls, checked under Spec *)

\* C6: the backend-specific transforms of the canonical options (squaring
\* minRegionArea and mergeRegionArea, scaling detailSampleDistance by
\* cellSize and detailSampleMaxError by cellHeight) are applied exactly once
\* and to the navcat option record only; recast receives the canonical
\* values unchanged.  Canonical minRegionArea = 8 reaches navcat as 64 and
\* recast as 8.  (Values in hundredths.)
C6_TransformsOnNavcatOnly ==
    /\ Cardinality(buildArgs.recast) <= 1
    /\ Cardinality(buildArgs.navcat) <= 1
    /\ \A a \in buildArgs.recast :
         /\ options[1].minRegionArea = 800
         /\ a.options.minRegionArea = 800
         /\ a.options.mergeRegionArea = 2000
         /\ a.options.detailSampleDist = 500
         /\ a.options.detailSampleMaxError = 130
    /\ \A a \in buildArgs.navcat :
         /\ options[1].minRegionArea = 800
         /\ a.options.minRegionArea = 6400
         /\ a.options.mergeRegionArea = 40000
         /\ a.options.detailSampleDistance = 75
         /\ a.options.detailSampleMaxError = 39
         /\ a.options.cellSize = options[1].cellSize
         /\ a.options.cellHeight = options[1].cellHeight
         /\ a.options.maxSimplificationError = options[1].maxSimplificationError

C6_Witness ==
    /\ genResults # <<>>
    /\ \E a \in buildArgs.recast : a.options.minRegionArea = 800
    /\ \E a \in buildArgs.navcat : a.options.minRegionArea = 6400

\* C7: benchmarkGeneration fails with a generation error whenever a
\* backend's build returns no usable handle on its final iteration, for each
\* of the two backends, so it never returns a GenerationResults in which
\* either navmesh handle is missing.
C7_NoResultsWithoutBothHandles ==
    genResults # <<>> =>
        /\ genResults[1].recastNav # NoHandle
        /\ genResults[1].navcatNav # NoHandle

\* C8: in verifyPaths each backend's path query is invoked exactly once, and
\* both invocations receive the identical start, end and searchHalfExtents.
C8_IdenticalQueryInputs ==
    pathResults # <<>> =>
        /\ Len(pathQueries) = 2
        /\ {pathQueries[1].backend, pathQueries[2].backend} = {"navcat", "recast"}
        /\ pathQueries[1].start = pathQueries[2].start
        /\ pathQueries[1].end = pathQueries[2].end
        /\ pathQueries[1].halfExtents = pathQueries[2].halfExtents

IsStageEvent(e) ==
    e \in {"extract.start", "extract.end", "generation.start", "generation.end",
           "paths.start", "paths.end", "queries.start", "queries.end"}

StageOrder ==
    <<"extract.start", "extract.end", "generation.start", "generation.end",
      "paths.start", "paths.end", "queries.start", "queries.end">>

IsPrefix(s, t) == Len(s) <= Len(t) /\ \A k \in 1..Len(s) : s[k] = t[k]

Precedes(a, b) ==
    \A y \in 1..Len(log) : log[y] = b => \E x \in 1..(y - 1) : log[x] = a

\* C9: in every execution of run the stages happen strictly one after
\* another in the order extraction, generation benchmarking, path
\* comparison, query benchmarking, none starting before the previous one has
\* finished; the asynchronous backend initialization completes before the
\* first benchmarked generation call.
C9_StagesInOrder ==
    /\ IsPrefix(SelectSeq(log, IsStageEvent), StageOrder)
    /\ Precedes("init.end", "generation.start")
    /\ (buildArgs.recast # {} \/ buildArgs.navcat # {}) =>
         /\ recastInitTime # <<>>
         /\ Precedes("init.end", "generation.start")
         /\ \E x \in 1..Len(log) : log[x] = "generation.start"
    /\ pc \in {"warmup", "measure"} =>
         log[Len(log)] \in {"generation.start", "queries.start"}

C9_Witness ==
    /\ pc = "done"
    /\ SelectSeq(log, IsStageEvent) = StageOrder
    /\ recastInitTime # <<>>

InLog(e) == \E x \in 1..Len(log) : log[x] = e

InitFailed == errorShown = <<"recast init failed">>

\* the final build call of a backend's benchmark returned no usable handle
RecastGenerationFailedFinally ==
    /\ recastNav = NoHandle
    /\ name = "recast generation"
    /\ Returned

NavcatGenerationFailedFinally ==
    /\ navcatNav = NoHandle
    /\ \/ name = "navcat generation" /\ Returned
       \/ name \in {"recast query", "navcat query"}

\* C10: if initialization or navmesh generation fails during run, none of
\* the later stages (the second backend's generation after the first failed,
\* visualization, path comparison, query benchmarking, summary) is ever
\* executed; the failure's text is shown and the run ends without a summary.
C10_FailureHaltsLaterStages ==
    /\ InitFailed => ~InLog("generation.start")
    /\ RecastGenerationFailedFinally => buildArgs.navcat = {}
    /\ (InitFailed \/ RecastGenerationFailedFinally \/ NavcatGenerationFailedFinally) =>
         /\ ~InLog("visualize.start")
         /\ ~InLog("paths.start")
         /\ ~InLog("queries.start")
         /\ ~InLog("summary")
         /\ pc # "done"
    /\ pc = "failed" => errorShown # <<>>

\* the number of the last of the warmupRuns + runs build calls of a backend
FinalBuildCall == DefaultWarmupRuns + DefaultRuns

\* the handle the latest build call of the running benchmark produced, or
\* none when it produced none (a handle is named by the call that made it)
LatestHandle == {calls, NoHandle}

\* C11: when benchmarkGeneration returns successfully, the navmesh handle it
\* returns for each backend is the one produced by that backend's final
\* measured build invocation (the last of its warmupRuns + runs calls):
\* every invocation overwrites the single captured slot, and handles of
\* earlier iterations are never returned.
C11_FinalHandleReturned ==
    /\ name = "recast generation" => recastNav \in LatestHandle
    /\ name = "navcat generation" => navcatNav \in LatestHandle
    /\ pc \in {"recast_gen_done", "navcat_gen_done"} =>
         /\ calls = FinalBuildCall
         /\ timedCalls[Len(timedCalls)] = FinalBuildCall
    /\ genResults # <<>> =>
         /\ genResults[1].recastNav = FinalBuildCall
         /\ genResults[1].navcatNav \in {FinalBuildCall, NoHandle}

C11_Witness ==
    /\ genResults # <<>>
    /\ genResults[1].recastNav = FinalBuildCall
    /\ genResults[1].navcatNav = FinalBuildCall
    /\ FinalBuildCall > 1

=============================================================================
